---------------------------- MODULE Spec2Model ----------------------------
(***************************************************************************)
(* A model of mocketd: the host runtime that serves HTTP on behalf of a    *)
(* WebAssembly guest (src/src/main.rs, src/src/nodehttp.rs).               *)
(*                                                                         *)
(* Spec      the server: the main thread, the guest, one task per decoded  *)
(*           envelope (handle_receive) and one task per accepted           *)
(*           connection (handle_connection and the request handler).       *)
(* FairSpec  the same host with a guest that answers every http.request    *)
(*           event with a well-formed http.end, under weak fairness of     *)
(*           every task.                                                   *)
(* CodecSpec the channel at code-unit level: send_event's encoding fed     *)
(*           into h_sd / h_se.                                             *)
(***************************************************************************)
EXTENDS Integers, Sequences, FiniteSets, TLC

\* ------------------------------------------------------------------ bounds
MaxConns == 2
MaxSends == 3
MaxText == 2

Conns == 1 .. MaxConns
Tasks == 1 .. MaxSends

\* ------------------------------------------------------------- JSON values
\* A serde_json::Value is a pair <<tag, payload>>.  A number carries twice
\* its value, so that halves (0.5, -0.5) are representable.
JNull == <<"null", 0>>
JNum(k) == <<"num", k>>
JInt(i) == <<"num", 2 * i>>
JStr(s) == <<"str", s>>
JArr(s) == <<"arr", s>>
JObj(s) == <<"obj", s>>

IsNum(v) == v[1] = "num"
IsStr(v) == v[1] = "str"
IsArr(v) == v[1] = "arr"
IsObj(v) == v[1] = "obj"

\* Value[i]: Null when the value is no array or the index is out of range.
Index(v, i) == IF IsArr(v) /\ i + 1 <= Len(v[2]) THEN v[2][i + 1] ELSE JNull

U16Max == 65535

Min(a, b) == IF a <= b THEN a ELSE b

\* `f as usize` on the f64 of a JSON number: truncation toward zero, negative
\* numbers saturate to 0.  (The saturation at usize::MAX is above every id the
\* bounded counter hands out and is left out.)
AsUsize(k) == IF k < 0 THEN 0 ELSE k \div 2
\* `f as u16`: the same, saturating at u16::MAX.
AsU16(k) == IF k < 0 THEN 0 ELSE Min(k \div 2, U16Max)

\* map_to_iter: the (key, value) pairs of an object whose value is a string.
map_to_iter(pairs) == SelectSeq(pairs, LAMBDA p : IsStr(p[2]))

\* --------------------------------------------------------- request parsing
\* The bytes of a request are a sequence of pieces: SP is a run of
\* whitespace, NUL a run of zero bytes, any other string a run of
\* non-whitespace bytes.  `full` says the read filled the whole buffer.
SP == " "
NUL == "\\0"

\* handle_connection reads into a zeroed buffer and parses the whole buffer:
\* whatever the read did not fill is zero bytes.
Padded(input) == IF input.full THEN input.bytes ELSE Append(input.bytes, NUL)

RECURSIVE Split(_, _, _)
Split(s, cur, acc) ==
    IF s = <<>>
    THEN IF cur = <<>> THEN acc ELSE Append(acc, cur)
    ELSE IF Head(s) = SP
         THEN Split(Tail(s), <<>>, IF cur = <<>> THEN acc ELSE Append(acc, cur))
         ELSE Split(Tail(s), Append(cur, Head(s)), acc)

\* str::split_whitespace: the maximal runs of non-whitespace, zero bytes
\* included (U+0000 is not whitespace).
split_whitespace(s) == Split(s, <<>>, <<>>)

\* parts.next().unwrap_or("")
NextOr(parts, i) == IF Len(parts) >= i THEN parts[i] ELSE <<>>

ParseRequest(input) ==
    LET parts == split_whitespace(Padded(input))
    IN  [method |-> NextOr(parts, 1), path |-> NextOr(parts, 2)]

StandardMethods ==
    { <<m>> : m \in {"GET", "POST", "PUT", "DELETE", "HEAD", "OPTIONS", "CONNECT",
                     "TRACE", "PATCH"} }

\* A handler that takes every method for a standard one.
IsStandardAll(method) == TRUE
\* [..].contains(&req.method.as_str())
IsStandard(method) == method \in StandardMethods

\* What a client may send.
Inputs ==
    { [bytes |-> <<"GET", SP, "/x", SP>>, full |-> FALSE],
      [bytes |-> <<"FOO", SP, "/x", SP>>, full |-> FALSE],
      [bytes |-> <<"GET">>, full |-> FALSE],
      [bytes |-> <<SP>>, full |-> TRUE] }

\* ------------------------------------------------------ what the guest says
Headers == << <<"Content-Type", JStr("text/plain")>> >>

Envelope(cmd, payload) == JArr(<<JStr(cmd), payload>>)
EndPayload(id, body) == JArr(<<id, JInt(200), JObj(Headers), body>>)
EndMsg(id, body) == Envelope("http.end", EndPayload(id, body))
ListenMsg(port) == Envelope("http.listen", port)

\* The id numbers a guest may name: -1, 0, 0.5 and 1.
IdNums == { JNum(k) : k \in {-2, 0, 1, 2} }

WellFormedEnds == { EndMsg(id, JStr("hi")) : id \in IdNums } \cup {EndMsg(JInt(0), JObj(<<>>))}

MalformedEnds ==
    { EndMsg(JInt(0), JInt(5)),
      Envelope("http.end", JArr(<<JInt(0), JInt(200), JObj(Headers)>>)),
      Envelope("http.end", JInt(0)) }

OtherValues ==
    { ListenMsg(JStr("80")),
      Envelope("http.writeHead", JArr(<<JInt(0), JInt(200), JObj(Headers)>>)),
      JInt(5) }

GuestValues == {ListenMsg(JInt(80))} \cup WellFormedEnds \cup MalformedEnds \cup OtherValues

\* ------------------------------------------------------------------- state
VARIABLES
    mainPc,        \* main: "start" while _start runs, then "running"
    WASM_STORE,    \* TRUE iff the static holds Some(store)
    NEXT_ID,       \* the id counter
    RESPONSE_MAP,  \* the registry: id -> connection
    mapLock,       \* the task holding RESPONSE_MAP's mutex, 0 if none
    ports,         \* the ports bound by running servers
    conn,          \* per connection: its task and its socket
    task,          \* per decoded envelope: the spawned handle_receive task
    sends,         \* number of envelopes the guest has sent
    guestEvents,   \* the events the guest has received (h_rd.. h_re), in order
    obtained,      \* history: <<task, index, connection>> of each registry take
    rdCalls,       \* send_event: per connection, the h_rd calls made for its event
    missed,        \* history: <<index, taken before>> of each http.end that found
                   \* no entry
    cmd,           \* codec: the command of the envelope being sent
    payload,       \* codec: its payload, a string of code units
    codecPc,       \* codec: "idle", "encode", "rd", "echo", "push", "done"
    wire,          \* codec: the values still to be pushed
    buffer,        \* h_sd / h_se: the accumulation buffer
    pushed,        \* history: the values given to h_sd for the current message
    inbound,       \* history: the h_rd / h_re calls send_event has made
    endBody,       \* Response::end: the body it is called with
    chunkPc,       \* Response::end: its position
    sock,          \* Response::end: the bytes written to the stream
    decoded        \* codec: what h_se handed to handle_receive

serverVars == <<mainPc, WASM_STORE, NEXT_ID, RESPONSE_MAP, mapLock, ports, conn, task,
                sends, guestEvents, obtained, missed, rdCalls>>
codecVars == <<cmd, payload, codecPc, wire, buffer, pushed, inbound, decoded>>
chunkVars == <<endBody, chunkPc, sock>>
\* What the steps of the server at the grain of whole send_event calls leave
\* alone.
sideVars == <<codecVars, chunkVars, rdCalls>>

NoConn == [pc |-> "idle", method |-> <<>>, path |-> <<>>, id |-> -1, out |-> <<>>,
           open |-> FALSE]
NoTask == [pc |-> "free", val |-> JNull, res |-> 0]

ServerInit ==
    /\ mainPc = "start"
    /\ WASM_STORE = FALSE
    /\ NEXT_ID = 0
    /\ RESPONSE_MAP = <<>>
    /\ mapLock = 0
    /\ ports = {}
    /\ conn = [c \in Conns |-> NoConn]
    /\ task = [t \in Tasks |-> NoTask]
    /\ sends = 0
    /\ guestEvents = <<>>
    /\ obtained = {}
    /\ missed = {}
    /\ rdCalls = [c \in Conns |-> 0]

Registered(i) == i \in DOMAIN RESPONSE_MAP

\* A registry that holds the last pending connection only.
MapInsertLast(m, i, c) == [k \in {i} |-> c]
\* HashMap::insert: an entry under the same key is replaced.
MapInsert(m, i, c) == [k \in DOMAIN m \cup {i} |-> IF k = i THEN c ELSE m[k]]
\* A take that reads the entry and leaves it in the map.
MapKeep(m, i) == m
\* HashMap::remove
MapRemove(m, i) == [k \in DOMAIN m \ {i} |-> m[k]]

\* NEXT_ID.fetch_add(1, SeqCst): the value left in the counter.
\* A counter that is read and not incremented.
FetchAddNone(n) == n
FetchAdd(n) == n + 1

\* ------------------------------------------------------------ main thread
\* main: _start returns and the store is put back into the static.
MainStartReturns ==
    /\ mainPc = "start"
    /\ mainPc' = "running"
    /\ WASM_STORE' = TRUE
    /\ UNCHANGED sideVars
    /\ UNCHANGED <<NEXT_ID, RESPONSE_MAP, mapLock, ports, conn, task, sends, guestEvents,
                   obtained, missed>>

\* ------------------------------------------------------------------ guest
\* The guest runs inside _start and inside the h_rd / h_re calls of send_event.
GuestRunning == mainPc = "start" \/ \E c \in Conns : conn[c].pc = "in_guest"

\* An h_se that awaits the handler: the guest gets control back, and can
\* send again, only once no earlier handler is unfinished.
h_se_blocking(v) ==
    /\ sends < MaxSends
    /\ \A t \in Tasks : task[t].pc \in {"free", "done", "panicked"}
    /\ sends' = sends + 1
    /\ task' = [task EXCEPT ![sends + 1] = [pc |-> "spawned", val |-> v, res |-> 0]]
\* h_sd.. h_se for an envelope that decodes: the value is handed to a new task.
h_se_spawn(v) ==
    /\ sends < MaxSends
    /\ sends' = sends + 1
    /\ task' = [task EXCEPT ![sends + 1] = [pc |-> "spawned", val |-> v, res |-> 0]]

GuestSend(v) ==
    /\ GuestRunning
    /\ h_se_spawn(v)
    /\ UNCHANGED sideVars
    /\ UNCHANGED <<mainPc, WASM_STORE, NEXT_ID, RESPONSE_MAP, mapLock, ports, conn,
                   guestEvents, obtained, missed>>

\* ------------------------------------------------------- connection tasks
AcceptingServer == \E t \in Tasks : task[t].pc = "accepting"

\* Server::listen: accept() returns a stream and a task is spawned for it.
\* Connections are numbered in the order of acceptance.
Accept(c) ==
    /\ AcceptingServer
    /\ conn[c].pc = "idle"
    /\ \A k \in Conns : k < c => conn[k].pc # "idle"
    /\ conn' = [conn EXCEPT ![c].pc = "read", ![c].open = TRUE]
    /\ UNCHANGED sideVars
    /\ UNCHANGED <<mainPc, WASM_STORE, NEXT_ID, RESPONSE_MAP, mapLock, ports, task, sends,
                   guestEvents, obtained, missed>>

\* A handler that takes an id for every request, whatever its method.
handle_connection_any(c, input) ==
    /\ conn[c].pc = "read"
    /\ LET req == ParseRequest(input)
       IN  conn' = [conn EXCEPT ![c].pc = IF IsStandard(req.method) THEN "alloc" ELSE "reject",
                                ![c].method = req.method, ![c].path = req.path,
                                ![c].id = IF IsStandard(req.method) THEN NEXT_ID ELSE -1]
    /\ NEXT_ID' = FetchAdd(NEXT_ID)
    /\ UNCHANGED sideVars
    /\ UNCHANGED <<mainPc, WASM_STORE, RESPONSE_MAP, mapLock, ports, task, sends,
                   guestEvents, obtained, missed>>

\* handle_connection: the read returns, the request line is split and the
\* handler is called; with a standard method its first step is the fetch_add.
handle_connection(c, input) ==
    /\ conn[c].pc = "read"
    /\ LET req == ParseRequest(input)
       IN  IF IsStandard(req.method)
           THEN /\ conn' = [conn EXCEPT ![c].pc = "alloc", ![c].method = req.method,
                                        ![c].path = req.path, ![c].id = NEXT_ID]
                /\ NEXT_ID' = FetchAdd(NEXT_ID)
           ELSE /\ conn' = [conn EXCEPT ![c].pc = "reject", ![c].method = req.method,
                                        ![c].path = req.path]
                /\ NEXT_ID' = NEXT_ID
    /\ UNCHANGED sideVars
    /\ UNCHANGED <<mainPc, WASM_STORE, RESPONSE_MAP, mapLock, ports, task, sends,
                   guestEvents, obtained, missed>>

\* handle_connection: the read fails, the task panics and drops the stream.
read_fails(c) ==
    /\ conn[c].pc = "read"
    /\ conn' = [conn EXCEPT ![c].pc = "panicked", ![c].open = FALSE]
    /\ UNCHANGED sideVars
    /\ UNCHANGED <<mainPc, WASM_STORE, NEXT_ID, RESPONSE_MAP, mapLock, ports, task, sends,
                   guestEvents, obtained, missed>>

Event(c) == [method |-> conn[c].method, url |-> conn[c].path, id |-> conn[c].id]

\* send_event: with a store, every byte goes through h_rd and then h_re is
\* called: the guest has the event and runs.  Without one nothing is sent.
send_event(c) ==
    /\ conn[c].pc = "alloc"
    /\ IF WASM_STORE
       THEN /\ guestEvents' = Append(guestEvents, Event(c))
            /\ conn' = [conn EXCEPT ![c].pc = "in_guest"]
       ELSE /\ guestEvents' = guestEvents
            /\ conn' = [conn EXCEPT ![c].pc = "sent"]
    /\ UNCHANGED sideVars
    /\ UNCHANGED <<mainPc, WASM_STORE, NEXT_ID, RESPONSE_MAP, mapLock, ports, task, sends,
                   obtained, missed>>

\* h_re returns to send_event, which returns to the handler.
h_re_returns(c) ==
    /\ conn[c].pc = "in_guest"
    /\ conn' = [conn EXCEPT ![c].pc = "sent"]
    /\ UNCHANGED sideVars
    /\ UNCHANGED <<mainPc, WASM_STORE, NEXT_ID, RESPONSE_MAP, mapLock, ports, task, sends,
                   guestEvents, obtained, missed>>

\* The handler locks RESPONSE_MAP and inserts the response under its id; a
\* response the insert replaces is dropped, which closes its stream.
register(c) ==
    /\ conn[c].pc = "sent"
    /\ mapLock = 0
    /\ RESPONSE_MAP' = MapInsert(RESPONSE_MAP, conn[c].id, c)
    /\ conn' = [k \in Conns |->
                  IF k = c THEN [conn[k] EXCEPT !.pc = "done"]
                  ELSE IF Registered(conn[c].id) /\ RESPONSE_MAP[conn[c].id] = k
                       THEN [conn[k] EXCEPT !.open = FALSE]
                       ELSE conn[k]]
    /\ UNCHANGED sideVars
    /\ UNCHANGED <<mainPc, WASM_STORE, NEXT_ID, mapLock, ports, task, sends, guestEvents,
                   obtained, missed>>

\* The handler of a non-standard method: res.end("") and the response is
\* dropped; a failed write panics the task, which drops it as well.
reject(c, ok) ==
    /\ conn[c].pc = "reject"
    /\ conn' = [conn EXCEPT ![c].pc = IF ok THEN "done" ELSE "panicked",
                            ![c].out = IF ok THEN Append(@, <<"body", <<>>>>) ELSE @,
                            ![c].open = FALSE]
    /\ UNCHANGED sideVars
    /\ UNCHANGED <<mainPc, WASM_STORE, NEXT_ID, RESPONSE_MAP, mapLock, ports, task, sends,
                   guestEvents, obtained, missed>>

\* -------------------------------------------------------- dispatch tasks
\* handle_receive's match on the envelope.
Kind(v) ==
    LET ty == Index(v, 0)
        data == Index(v, 1)
    IN  IF ~IsStr(ty) THEN "invalid_type"
        ELSE IF ty[2] = "http.listen"
             THEN IF IsNum(data) THEN "listen" ELSE "invalid_port"
        ELSE IF ty[2] = "http.end"
             THEN IF ~IsArr(data) THEN "expected_array"
                  ELSE IF /\ Len(data[2]) = 4
                          /\ IsNum(data[2][1])
                          /\ IsNum(data[2][2])
                          /\ IsObj(data[2][3])
                       THEN "end"
                       ELSE "invalid_end"
        ELSE "unknown"

EndId(v) == Index(v, 1)[2][1]
EndStatus(v) == Index(v, 1)[2][2]
EndHeaders(v) == Index(v, 1)[2][3]
EndBody(v) == Index(v, 1)[2][4]

\* serde_json::to_string of an object with string members.
RECURSIVE Members(_)
Members(pairs) ==
    IF pairs = <<>> THEN <<>>
    ELSE <<"\"", pairs[1][1], "\"", ":", "\"", pairs[1][2][2], "\"">>
         \o (IF Len(pairs) > 1 THEN <<",">> ELSE <<>>) \o Members(Tail(pairs))
to_string(pairs) == <<"{">> \o Members(pairs) \o <<"}">>

\* The text Response::end is given for a body.
BodyText(body) == IF IsStr(body) THEN <<body[2]>> ELSE to_string(body[2])

\* An "http.listen" whose failed bind ends the process: every task is gone
\* and every listener is closed.
handle_listen_exit(t, ok) ==
    /\ task[t].pc = "spawned"
    /\ Kind(task[t].val) = "listen"
    /\ LET port == AsU16(Index(task[t].val, 1)[2])
       IN  IF port \in ports \/ ~ok
           THEN /\ task' = [u \in Tasks |->
                              IF task[u].pc = "free" THEN task[u]
                              ELSE [pc |-> "panicked", val |-> JNull, res |-> 0]]
                /\ ports' = {}
           ELSE /\ task' = [task EXCEPT ![t].pc = "accepting"]
                /\ ports' = ports \cup {port}
    /\ UNCHANGED sideVars
    /\ UNCHANGED <<mainPc, WASM_STORE, NEXT_ID, RESPONSE_MAP, mapLock, conn, sends,
                   guestEvents, obtained, missed>>

\* "http.listen": bind the port and run the accept loop; a failed bind (the
\* port is in use, or the bind is refused: ~ok) makes handle_receive return
\* Err, and the spawned task's unwrap panics.
handle_listen(t, ok) ==
    /\ task[t].pc = "spawned"
    /\ Kind(task[t].val) = "listen"
    /\ LET port == AsU16(Index(task[t].val, 1)[2])
       IN  IF port \in ports \/ ~ok
           THEN /\ task' = [task EXCEPT ![t] = [pc |-> "panicked", val |-> JNull, res |-> 0]]
                /\ ports' = ports
           ELSE /\ task' = [task EXCEPT ![t].pc = "accepting"]
                /\ ports' = ports \cup {port}
    /\ UNCHANGED sideVars
    /\ UNCHANGED <<mainPc, WASM_STORE, NEXT_ID, RESPONSE_MAP, mapLock, conn, sends,
                   guestEvents, obtained, missed>>

\* The logging arms, with an "http.writeHead" arm that writes the status line
\* and the headers to the connection registered under the id.
handle_noop_legacy(t) ==
    /\ task[t].pc = "spawned"
    /\ Kind(task[t].val) \in {"invalid_type", "invalid_port", "expected_array",
                              "invalid_end", "unknown"}
    /\ task' = [task EXCEPT ![t].pc = "done"]
    /\ LET v == task[t].val
           data == Index(v, 1)
           known == /\ Kind(v) = "unknown"
                    /\ Index(v, 0)[2] = "http.writeHead"
                    /\ IsArr(data) /\ Len(data[2]) = 3 /\ IsNum(data[2][1])
                    /\ Registered(AsUsize(data[2][1][2]))
       IN  conn' = IF known
                   THEN [conn EXCEPT ![RESPONSE_MAP[AsUsize(data[2][1][2])]].out =
                             Append(@, <<"head", AsU16(data[2][2][2]), <<>>>>)]
                   ELSE conn
    /\ UNCHANGED sideVars
    /\ UNCHANGED <<mainPc, WASM_STORE, NEXT_ID, RESPONSE_MAP, mapLock, ports, sends,
                   guestEvents, obtained, missed>>

\* Every arm of handle_receive that only logs.
handle_noop(t) ==
    /\ task[t].pc = "spawned"
    /\ Kind(task[t].val) \in {"invalid_type", "invalid_port", "expected_array",
                              "invalid_end", "unknown"}
    /\ task' = [task EXCEPT ![t].pc = "done"]
    /\ UNCHANGED sideVars
    /\ UNCHANGED <<mainPc, WASM_STORE, NEXT_ID, RESPONSE_MAP, mapLock, ports, conn, sends,
                   guestEvents, obtained, missed>>

\* "http.end": lock RESPONSE_MAP and remove the entry under `id as usize`.
\* With an entry the task goes on to write_head, the guard still alive.
handle_end(t) ==
    /\ task[t].pc = "spawned"
    /\ Kind(task[t].val) = "end"
    /\ mapLock = 0
    /\ LET index == AsUsize(EndId(task[t].val)[2])
       IN  IF Registered(index)
           THEN /\ RESPONSE_MAP' = MapRemove(RESPONSE_MAP, index)
                /\ task' = [task EXCEPT ![t].pc = "write_head",
                                        ![t].res = RESPONSE_MAP[index]]
                /\ mapLock' = t
                /\ obtained' = obtained \cup {<<t, index, RESPONSE_MAP[index]>>}
                /\ missed' = missed
           ELSE /\ task' = [task EXCEPT ![t] = [pc |-> "done", val |-> JNull, res |-> 0]]
                /\ missed' = missed \cup {<<index, \E x \in obtained : x[2] = index>>}
                /\ UNCHANGED <<RESPONSE_MAP, mapLock, obtained>>
    /\ UNCHANGED sideVars
    /\ UNCHANGED <<mainPc, WASM_STORE, NEXT_ID, ports, conn, sends, guestEvents>>

\* Response::write_head's write completes.  A string or object body goes on
\* to Response::end; any other body is logged and the handler returns, which
\* drops the response and the guard.  A failed write returns Err.
write_head(t, ok) ==
    /\ task[t].pc = "write_head"
    /\ LET v == task[t].val
           c == task[t].res
           more == ok /\ (IsStr(EndBody(v)) \/ IsObj(EndBody(v)))
       IN  /\ conn' = [conn EXCEPT
                         ![c].out = IF ok
                                    THEN Append(@, <<"head", AsU16(EndStatus(v)[2]),
                                                     map_to_iter(EndHeaders(v)[2])>>)
                                    ELSE @,
                         ![c].open = more]
           /\ task' = [task EXCEPT ![t] =
                         IF more THEN [@ EXCEPT !.pc = "end"]
                         ELSE [pc |-> IF ok THEN "done" ELSE "panicked", val |-> JNull,
                               res |-> 0]]
           /\ mapLock' = IF more THEN mapLock ELSE 0
    /\ UNCHANGED sideVars
    /\ UNCHANGED <<mainPc, WASM_STORE, NEXT_ID, RESPONSE_MAP, ports, sends, guestEvents,
                   obtained, missed>>

\* Response::end's write and flush complete; the handler returns.
end(t, ok) ==
    /\ task[t].pc = "end"
    /\ LET c == task[t].res
       IN  conn' = [conn EXCEPT
                      ![c].out = IF ok THEN Append(@, <<"body", BodyText(EndBody(task[t].val))>>)
                                 ELSE @,
                      ![c].open = FALSE]
    /\ task' = [task EXCEPT ![t] = [pc |-> IF ok THEN "done" ELSE "panicked", val |-> JNull,
                                    res |-> 0]]
    /\ mapLock' = 0
    /\ UNCHANGED sideVars
    /\ UNCHANGED <<mainPc, WASM_STORE, NEXT_ID, RESPONSE_MAP, ports, sends, guestEvents,
                   obtained, missed>>

\* ------------------------------------------------------------------ codec
\* Texts are sequences of UTF-16 code units.
Units == {97, 233, 256, 20013}

RECURSIVE TextsUpTo(_)
TextsUpTo(n) ==
    IF n = 0 THEN {<<>>}
    ELSE LET shorter == TextsUpTo(n - 1)
         IN  shorter \cup { Append(t, u) : t \in shorter, u \in Units }

Texts == TextsUpTo(MaxText)
Cmds == {<<97>>, <<104, 116>>}

\* serde_json's text of a string none of whose characters needs an escape.
Quoted(t) == <<34>> \o t \o <<34>>
\* json!([event_type, data]).to_string(), for a string payload.
json_to_string(c, p) == <<91>> \o Quoted(c) \o <<44>> \o Quoted(p) \o <<93>>

\* Each code unit as its low byte and then its high byte.
RECURSIVE uint8array_le(_)
uint8array_le(utf16) ==
    IF utf16 = <<>> THEN <<>>
    ELSE <<Head(utf16) % 256, (Head(utf16) \div 256) % 256>> \o uint8array_le(Tail(utf16))

\* send_event: each code unit becomes its high byte and its low byte.
RECURSIVE uint8array(_)
uint8array(utf16) ==
    IF utf16 = <<>> THEN <<>>
    ELSE <<(Head(utf16) \div 256) % 256, Head(utf16) % 256>> \o uint8array(Tail(utf16))

\* String::from_utf16 fails on a surrogate that is not part of a pair.
IsHigh(u) == 55296 <= u /\ u <= 56319
IsLow(u) == 56320 <= u /\ u <= 57343
RECURSIVE ValidUtf16(_)
ValidUtf16(t) ==
    IF t = <<>> THEN TRUE
    ELSE IF IsHigh(t[1]) THEN Len(t) >= 2 /\ IsLow(t[2]) /\ ValidUtf16(Tail(Tail(t)))
    ELSE ~IsLow(t[1]) /\ ValidUtf16(Tail(t))

\* utf8_string.replace("\0", "")
StripNul(t) == SelectSeq(t, LAMBDA u : u # 0)

\* The position of the quote closing the JSON string whose first character
\* is at i; 0 if the string is not closed, or holds a control character or
\* an escape.
RECURSIVE StrEnd(_, _)
StrEnd(t, i) ==
    IF i > Len(t) THEN 0
    ELSE IF t[i] = 34 THEN i
    ELSE IF t[i] < 32 \/ t[i] = 92 THEN 0
    ELSE StrEnd(t, i + 1)

\* serde_json::from_str, for the texts of two-element arrays of strings;
\* any other text is taken as no such envelope.
from_str(t) ==
    IF Len(t) < 2 \/ t[1] # 91 \/ t[2] # 34 THEN <<"none">>
    ELSE LET j == StrEnd(t, 3)
         IN  IF j = 0 \/ Len(t) < j + 2 \/ t[j + 1] # 44 \/ t[j + 2] # 34 THEN <<"none">>
             ELSE LET k == StrEnd(t, j + 3)
                  IN  IF k = 0 \/ Len(t) # k + 1 \/ t[k + 1] # 93 THEN <<"none">>
                      ELSE <<"some", SubSeq(t, 3, j - 1), SubSeq(t, j + 3, k - 1)>>

\* h_se's decode of the accumulated units.
Decode(data) ==
    IF data = <<>> \/ ~ValidUtf16(data) THEN <<"none">>
    ELSE from_str(StripNul(data))

CodecIdle ==
    /\ cmd = <<>>
    /\ payload = <<>>
    /\ codecPc = "idle"
    /\ wire = <<>>
    /\ buffer = <<>>
    /\ pushed = <<>>
    /\ inbound = <<>>
    /\ decoded = <<"pending">>

\* send_event's encode step for the envelope [cmd, payload].
encode ==
    /\ codecPc = "encode"
    /\ wire' = uint8array(json_to_string(cmd, payload))
    /\ codecPc' = "rd"
    /\ UNCHANGED <<cmd, payload, buffer, pushed, inbound, decoded>>
    /\ UNCHANGED <<serverVars, chunkVars>>

\* send_event's loop: the next byte is handed to the guest's h_rd.
h_rd(byte) ==
    /\ codecPc = "rd"
    /\ wire # <<>>
    /\ byte = Head(wire)
    /\ inbound' = Append(inbound, [f |-> "h_rd", ch |-> byte])
    /\ wire' = Tail(wire)
    /\ UNCHANGED <<cmd, payload, codecPc, buffer, pushed, decoded>>
    /\ UNCHANGED <<serverVars, chunkVars>>

\* send_event after the loop: h_re is called.
h_re ==
    /\ codecPc = "rd"
    /\ wire = <<>>
    /\ inbound' = Append(inbound, [f |-> "h_re", ch |-> 0])
    /\ codecPc' = "echo"
    /\ UNCHANGED <<cmd, payload, wire, buffer, pushed, decoded>>
    /\ UNCHANGED <<serverVars, chunkVars>>

\* The guest hands the values it was given back, one h_sd call per value.
guest_echo ==
    /\ codecPc = "echo"
    /\ wire' = [i \in 1 .. Len(inbound) - 1 |-> inbound[i].ch]
    /\ pushed' = <<>>
    /\ codecPc' = "push"
    /\ UNCHANGED <<cmd, payload, buffer, inbound, decoded>>
    /\ UNCHANGED <<serverVars, chunkVars>>

\* h_sd: the value is pushed as one 16-bit unit.
h_sd(ch) ==
    /\ codecPc = "push"
    /\ wire # <<>>
    /\ ch = Head(wire)
    /\ buffer' = Append(buffer, ch % 65536)
    /\ pushed' = Append(pushed, ch)
    /\ wire' = Tail(wire)
    /\ UNCHANGED <<cmd, payload, codecPc, inbound, decoded>>
    /\ UNCHANGED <<serverVars, chunkVars>>

\* A buffer that is cleared only when the message was decoded.
clear_decoded(data) == IF Decode(data)[1] = "some" THEN <<>> ELSE data
\* data.clear(): after the decode, whatever it gave.
clear(data) == <<>>

\* h_se: decode what was accumulated and clear the buffer.
h_se ==
    /\ codecPc = "push"
    /\ wire = <<>>
    /\ decoded' = Decode(buffer)
    /\ buffer' = clear(buffer)
    /\ codecPc' = "done"
    /\ UNCHANGED <<cmd, payload, wire, pushed, inbound>>
    /\ UNCHANGED <<serverVars, chunkVars>>

\* ------------------------------------------------------- Response::end
CR == 13
LF == 10
MaxBody == 3
BodyBytes == {104, 48, CR, LF}

RECURSIVE BodiesUpTo(_)
BodiesUpTo(n) ==
    IF n = 0 THEN {<<>>}
    ELSE LET shorter == BodiesUpTo(n - 1)
         IN  shorter \cup { Append(b, x) : b \in shorter, x \in BodyBytes }

\* The bodies: every short one, and long ones for the size lines A, F, 10,
\* 1A, FF and 100.
Bodies == BodiesUpTo(MaxBody) \cup { [i \in 1 .. n |-> 104] : n \in {10, 15, 16, 26, 255, 256} }

\* {:X}: upper-case hexadecimal, no leading zeros.
HexDigit(d) == IF d < 10 THEN 48 + d ELSE 55 + d
RECURSIVE UpperHex(_)
UpperHex(n) == IF n < 16 THEN <<HexDigit(n)>> ELSE UpperHex(n \div 16) \o <<HexDigit(n % 16)>>

\* The string Response::end formats: "{body_len:X}\r\n{body}\r\n0\r\n\r\n".
chunked_body(b) ==
    UpperHex(Len(b)) \o <<CR, LF>> \o b \o <<CR, LF>> \o <<48, CR, LF, CR, LF>>

ChunkIdle ==
    /\ endBody = <<>>
    /\ chunkPc = "idle"
    /\ sock = <<>>

\* stream.write_all(chunked_body.as_bytes())
end_write_all ==
    /\ chunkPc = "end"
    /\ sock' = sock \o chunked_body(endBody)
    /\ chunkPc' = "written"
    /\ UNCHANGED endBody
    /\ UNCHANGED <<serverVars, codecVars>>

\* stream.flush()
end_flush ==
    /\ chunkPc = "written"
    /\ chunkPc' = "flushed"
    /\ UNCHANGED <<endBody, sock>>
    /\ UNCHANGED <<serverVars, codecVars>>

\* ------------------------------------------- send_event, call by call
\* The text of json!(["http.request", data]): the method and the url as
\* JSON strings (the tokens of the model need no escape), the id in decimal.
Utf16(piece) ==
    CASE piece = "GET" -> <<71, 69, 84>>
      [] piece = "FOO" -> <<70, 79, 79>>
      [] piece = "/x" -> <<47, 120>>
RECURSIVE TokenUnits(_)
TokenUnits(token) ==
    IF token = <<>> THEN <<>> ELSE Utf16(Head(token)) \o TokenUnits(Tail(token))
RECURSIVE Decimal(_)
Decimal(n) == IF n < 10 THEN <<48 + n>> ELSE Decimal(n \div 10) \o <<48 + (n % 10)>>
request_json(e) ==
    \* ["http.request",[{"method":"
    <<91, 34, 104, 116, 116, 112, 46, 114, 101, 113, 117, 101, 115, 116, 34, 44, 91, 123,
      34, 109, 101, 116, 104, 111, 100, 34, 58, 34>>
    \o TokenUnits(e.method)
    \* ","url":"
    \o <<34, 44, 34, 117, 114, 108, 34, 58, 34>>
    \o TokenUnits(e.url)
    \* "},{"id":
    \o <<34, 125, 44, 123, 34, 105, 100, 34, 58>>
    \o Decimal(e.id)
    \* }]]
    \o <<125, 93, 93>>

\* send_event call by call.  It takes the store from the static without any
\* lock: with a store it encodes the event and goes on to the h_rd loop.
send_event_begin(c) ==
    /\ conn[c].pc = "alloc"
    /\ conn' = [conn EXCEPT ![c].pc = IF WASM_STORE THEN "h_rd" ELSE "sent"]
    /\ UNCHANGED <<codecVars, chunkVars>>
    /\ UNCHANGED <<mainPc, WASM_STORE, NEXT_ID, RESPONSE_MAP, mapLock, ports, task, sends,
                   guestEvents, obtained, missed, rdCalls>>

\* One turn of the loop: the next byte of the event goes to the guest's h_rd.
send_event_h_rd(c) ==
    /\ conn[c].pc = "h_rd"
    /\ rdCalls[c] < Len(uint8array(request_json(Event(c))))
    /\ rdCalls' = [rdCalls EXCEPT ![c] = @ + 1]
    /\ UNCHANGED <<codecVars, chunkVars>>
    /\ UNCHANGED <<mainPc, WASM_STORE, NEXT_ID, RESPONSE_MAP, mapLock, ports, conn, task,
                   sends, guestEvents, obtained, missed>>

\* After the loop h_re is called: the guest takes what it was given as an
\* event and runs.
send_event_h_re(c) ==
    /\ conn[c].pc = "h_rd"
    /\ rdCalls[c] = Len(uint8array(request_json(Event(c))))
    /\ guestEvents' = Append(guestEvents, Event(c))
    /\ conn' = [conn EXCEPT ![c].pc = "in_guest"]
    /\ UNCHANGED <<codecVars, chunkVars>>
    /\ UNCHANGED <<mainPc, WASM_STORE, NEXT_ID, RESPONSE_MAP, mapLock, ports, task, sends,
                   obtained, missed, rdCalls>>

\* ------------------------------------------- a guest that answers requests
guest_listen ==
    /\ mainPc = "start"
    /\ sends = 0
    /\ h_se_spawn(ListenMsg(JInt(80)))
    /\ UNCHANGED sideVars
    /\ UNCHANGED <<mainPc, WASM_STORE, NEXT_ID, RESPONSE_MAP, mapLock, ports, conn,
                   guestEvents, obtained, missed>>

\* Inside h_re the guest sends the http.end of the event it was given, and
\* h_re returns.
guest_answers(c) ==
    /\ conn[c].pc = "in_guest"
    /\ h_se_spawn(EndMsg(JInt(conn[c].id), JStr("hi")))
    /\ conn' = [conn EXCEPT ![c].pc = "sent"]
    /\ UNCHANGED sideVars
    /\ UNCHANGED <<mainPc, WASM_STORE, NEXT_ID, RESPONSE_MAP, mapLock, ports, guestEvents,
                   obtained, missed>>

\* ---------------------------------------------------------- specification
vars == <<serverVars, codecVars, chunkVars>>

Init == ServerInit /\ CodecIdle /\ ChunkIdle

Next ==
    \/ MainStartReturns
    \/ \E v \in GuestValues : GuestSend(v)
    \/ \E c \in Conns : Accept(c)
    \/ \E c \in Conns, input \in Inputs : handle_connection(c, input)
    \/ \E c \in Conns : read_fails(c)
    \/ \E c \in Conns : send_event(c)
    \/ \E c \in Conns : h_re_returns(c)
    \/ \E c \in Conns : register(c)
    \/ \E c \in Conns, ok \in BOOLEAN : reject(c, ok)
    \/ \E t \in Tasks, ok \in BOOLEAN : handle_listen(t, ok)
    \/ \E t \in Tasks : handle_noop(t)
    \/ \E t \in Tasks : handle_end(t)
    \/ \E t \in Tasks, ok \in BOOLEAN : write_head(t, ok)
    \/ \E t \in Tasks, ok \in BOOLEAN : end(t, ok)

Spec == Init /\ [][Next]_vars

\* The host with a guest that listens once and answers every event, no I/O
\* failing, every task scheduled fairly.
FairNext ==
    \/ MainStartReturns
    \/ guest_listen
    \/ \E c \in Conns : Accept(c)
    \/ \E c \in Conns, input \in Inputs : handle_connection(c, input)
    \/ \E c \in Conns : send_event(c)
    \/ \E c \in Conns : guest_answers(c)
    \/ \E c \in Conns : register(c)
    \/ \E c \in Conns : reject(c, TRUE)
    \/ \E t \in Tasks : handle_listen(t, TRUE)
    \/ \E t \in Tasks : handle_end(t)
    \/ \E t \in Tasks : write_head(t, TRUE)
    \/ \E t \in Tasks : end(t, TRUE)

Fairness ==
    /\ WF_vars(MainStartReturns)
    /\ WF_vars(guest_listen)
    /\ \A c \in Conns :
         /\ WF_vars(send_event(c))
         /\ WF_vars(guest_answers(c))
         /\ WF_vars(register(c))
         /\ WF_vars(reject(c, TRUE))
    /\ \A t \in Tasks :
         /\ WF_vars(handle_listen(t, TRUE))
         /\ WF_vars(handle_end(t))
         /\ WF_vars(write_head(t, TRUE))
         /\ WF_vars(end(t, TRUE))

FairSpec == Init /\ [][FairNext]_vars /\ Fairness

\* The server with send_event taken call by call: connection tasks run on
\* the workers of the runtime, each inside its own send_event.
DeliverNext ==
    \/ MainStartReturns
    \/ guest_listen
    \/ \E c \in Conns : Accept(c)
    \/ \E c \in Conns, input \in Inputs : handle_connection(c, input)
    \/ \E c \in Conns : send_event_begin(c)
    \/ \E c \in Conns : send_event_h_rd(c)
    \/ \E c \in Conns : send_event_h_re(c)
    \/ \E c \in Conns : h_re_returns(c)
    \/ \E c \in Conns : register(c)
    \/ \E c \in Conns : reject(c, TRUE)
    \/ \E t \in Tasks : handle_listen(t, TRUE)

DeliverSpec == Init /\ [][DeliverNext]_vars

\* The channel alone: one envelope is encoded, pushed and decoded.
CodecInit ==
    /\ ServerInit
    /\ ChunkIdle
    /\ cmd \in Cmds
    /\ payload \in Texts
    /\ codecPc = "encode"
    /\ wire = <<>>
    /\ buffer = <<>>
    /\ pushed = <<>>
    /\ inbound = <<>>
    /\ decoded = <<"pending">>

CodecNext ==
    \/ encode
    \/ \E byte \in 0 .. 255 : h_rd(byte)
    \/ h_re
    \/ guest_echo
    \/ \E ch \in 0 .. 255 : h_sd(ch)
    \/ h_se

CodecSpec == CodecInit /\ [][CodecNext]_vars

\* The guest's side of the channel: message after message, each a run of
\* h_sd calls closed by h_se.
GuestTexts ==
    { json_to_string(c, p) : c \in Cmds, p \in Texts }
        \cup { <<0>> \o json_to_string(<<97>>, <<233>>) \o <<0>>,
               <<65536 + 91, 34, 97, 34, 44, 34, 34, 93>>,
               <<55296>>, <<91, 55296, 93>>,
               <<91, 34, 97>>, <<-1, 91>>, <<>> }

\* The guest starts its next message: the units it is going to push.
guest_message(w) ==
    /\ codecPc \in {"idle", "done"}
    /\ wire' = w
    /\ pushed' = <<>>
    /\ codecPc' = "push"
    /\ UNCHANGED <<cmd, payload, buffer, inbound, decoded>>
    /\ UNCHANGED <<serverVars, chunkVars>>

ChannelNext ==
    \/ \E w \in GuestTexts : guest_message(w)
    \/ \E ch \in {wire[i] : i \in DOMAIN wire} : h_sd(ch)
    \/ h_se

ChannelSpec == Init /\ [][ChannelNext]_vars

\* Response::end alone, called with one of the bodies.
ChunkInit ==
    /\ ServerInit
    /\ CodecIdle
    /\ endBody \in Bodies
    /\ chunkPc = "end"
    /\ sock = <<>>

ChunkNext == end_write_all \/ end_flush

ChunkSpec == ChunkInit /\ [][ChunkNext]_vars

\* ------------------------------------------------------------- properties
Allocated(c) == conn[c].id # -1
EventsOf(c) == { i \in 1 .. Len(guestEvents) : guestEvents[i] = Event(c) }
Consumed(i) == \E x \in obtained : x[2] = i
Writing(t) == task[t].pc \in {"write_head", "end"}
Handles(t) == task[t].pc = "spawned" /\ task'[t].pc # "spawned"

\* C1: at most one http.end handler obtains (and writes to) the connection
\* registered under an id, and once an http.end has removed the entry of an
\* id no entry is found under that id again.
C1_AtMostOnce ==
    /\ \A x, y \in obtained : (x[2] = y[2] \/ x[3] = y[3]) => x = y
    /\ \A x \in obtained : ~Registered(x[2])
    /\ \A t, u \in Tasks : (t # u /\ Writing(t) /\ Writing(u)) => task[t].res # task[u].res

\* An http.end found no entry under an id that an earlier http.end had taken.
C1_Witness == \E x \in obtained, m \in missed : m[1] = x[2] /\ m[2]

\* C2: whenever the guest has received the http.request event of an id, the
\* registry holds an entry for that id or an http.end has consumed it.
C2_RegisteredBeforeEvent ==
    \A i \in 1 .. Len(guestEvents) :
        Registered(guestEvents[i].id) \/ Consumed(guestEvents[i].id)

\* C3: every allocation returns an id greater than every id allocated
\* before, the first allocation returns 0, and the counter never decreases.
C3_IdMonotonic ==
    [][/\ NEXT_ID' >= NEXT_ID
       /\ \A c \in Conns :
            (~Allocated(c) /\ conn'[c].id # -1) =>
                /\ \A d \in Conns : Allocated(d) => conn'[c].id > conn[d].id
                /\ (\A d \in Conns : ~Allocated(d)) => conn'[c].id = 0]_vars

\* Two connection tasks have allocated: ids 0 and 1 are out.
C3_Witness == \E c, d \in Conns : conn[c].id = 0 /\ conn[d].id = 1

\* C4: a connection whose method token is not a standard method gets no id,
\* no event and no registry entry, and is closed once its handler is done.
C4_RejectedSide ==
    \A c \in Conns :
        (conn[c].pc \in {"reject", "done", "panicked"} /\ conn[c].method \notin StandardMethods)
        => /\ ~Allocated(c)
           /\ \A i \in 1 .. Len(guestEvents) : guestEvents[i].method # conn[c].method
           /\ \A i \in DOMAIN RESPONSE_MAP : RESPONSE_MAP[i] # c
           /\ \A x \in obtained : x[3] # c
           /\ conn[c].pc # "reject" => ~conn[c].open

\* A request with a non-standard method, here a token with trailing zero
\* bytes, was handled and its connection closed while another connection is
\* registered.
C4_Witness ==
    \E c \in Conns :
        /\ conn[c].pc = "done"
        /\ conn[c].method = <<"GET", NUL>>
        /\ ~conn[c].open
        /\ \E d \in Conns : d # c /\ Registered(conn[d].id)

\* C5: once send_event has run for a connection with a standard method, the
\* guest has exactly one event with its method, path and id, and once the
\* handler is done there is a registry entry under the id (or an http.end
\* has taken it).
C5_ExactlyOneEvent ==
    \A c \in Conns :
        (conn[c].pc \in {"in_guest", "sent", "done"} /\ conn[c].method \in StandardMethods)
        => /\ Cardinality(EventsOf(c)) = 1
           /\ conn[c].pc = "done" =>
                \/ Registered(conn[c].id) /\ RESPONSE_MAP[conn[c].id] = c
                \/ \E x \in obtained : x[2] = conn[c].id /\ x[3] = c

\* C6: handling an http.end whose id number equals no registered id leaves
\* the registry and every connection as they are.
C6_AbsentIdNoop ==
    [][\A t \in Tasks :
         (/\ Handles(t)
          /\ Kind(task[t].val) = "end"
          /\ \A i \in DOMAIN RESPONSE_MAP : 2 * i # EndId(task[t].val)[2])
         => /\ RESPONSE_MAP' = RESPONSE_MAP
            /\ conn' = conn
            /\ task'[t].pc = "done"]_vars

\* C7: a task suspended on a network write or on accept does not hold the
\* registry lock.
C7_NoLockAcrossSuspension ==
    \A t \in Tasks : task[t].pc \in {"write_head", "end", "accepting"} => mapLock # t

\* The values the dispatcher is to survive: everything but a well-formed
\* http.listen or http.end.
BadInput(v) ==
    \/ Kind(v) \notin {"listen", "end"}
    \/ Kind(v) = "end" /\ ~IsStr(EndBody(v)) /\ ~IsObj(EndBody(v))

\* C8: handling a bad value ends without a panic and changes neither the
\* registry nor the servers nor any connection.
C8_BadInputNoop ==
    [][\A t \in Tasks :
         (Handles(t) /\ BadInput(task[t].val))
         => /\ task'[t].pc = "done"
            /\ RESPONSE_MAP' = RESPONSE_MAP
            /\ ports' = ports
            /\ conn' = conn]_vars

Responded(c) ==
    /\ Len(conn[c].out) = 2
    /\ conn[c].out[1][1] = "head"
    /\ conn[c].out[2][1] = "body"

\* C9: with a guest that answers every event, every connection with a
\* standard method eventually has its complete response and no registry
\* entry, and the first id given out is 0.
C9_EndToEnd ==
    /\ \A c \in Conns :
         [](conn[c].pc = "alloc" => <>(Responded(c) /\ ~Registered(conn[c].id)))
    /\ []((\E c \in Conns : Allocated(c)) => \E c \in Conns : conn[c].id = 0)

\* C10: what h_se decodes from the values send_event produces for [cmd, v]
\* is the envelope (cmd, v).
C10_RoundTrip == codecPc = "done" => decoded = <<"some", cmd, payload>>

\* C11: h_se returns without waiting for any handler: whenever the guest
\* runs it can send its next message, whatever the earlier handlers are
\* doing (the accept loop of an http.listen included), and the message gets
\* a task of its own.
C11_FireAndForget ==
    (GuestRunning /\ sends < MaxSends) => ENABLED (\E v \in GuestValues : GuestSend(v))

\* A message sent after the http.listen has been handled while the accept
\* loop of that http.listen runs.
C11_Witness ==
    \E t, u \in Tasks : t < u /\ task[t].pc = "accepting" /\ task[u].pc = "done"

\* C12: when h_se has returned the accumulation buffer is empty, whether
\* the message decoded or not, and what was decoded is the decode of exactly
\* the values pushed since the previous h_se, in push order.
C12_BufferDrained ==
    codecPc = "done" =>
        /\ buffer = <<>>
        /\ decoded = Decode([i \in DOMAIN pushed |-> pushed[i] % 65536])

\* h_se has returned for a message that is not valid UTF-16.
C12_Witness ==
    /\ codecPc = "done"
    /\ pushed # <<>>
    /\ ~ValidUtf16(pushed)
    /\ decoded = <<"none">>

\* C13 as claimed: every request that reaches the handler, whatever its
\* method, advances the id counter by one.
C13_EveryRequestCounts ==
    [][\A c \in Conns :
         (conn[c].pc = "read" /\ conn'[c].pc \in {"alloc", "reject"})
         => NEXT_ID' = NEXT_ID + 1]_vars

\* C13 as amended: the id counter equals the number of requests handled so
\* far whose method is a standard method; a request with another method
\* leaves it as it is.
C13_StandardRequestsCount ==
    NEXT_ID = Cardinality({ c \in Conns : conn[c].method \in StandardMethods })

\* A FOO request has been rejected and a GET request has its id: the counter
\* is at one.
C13_Witness ==
    /\ NEXT_ID = 1
    /\ \E c, d \in Conns :
         /\ conn[c].method = <<"FOO">> /\ conn[c].pc = "done"
         /\ conn[d].method = <<"GET">> /\ conn[d].id = 0

\* C14: for an event whose text has n code units send_event calls h_rd
\* exactly 2n times, each time with a value in 0 .. 255, the high byte of a
\* unit and then its low byte, unit after unit, and then calls h_re once.
C14_BytePairs ==
    LET text == json_to_string(cmd, payload)
        n == Len(text)
    IN  /\ Len(inbound) <= 2 * n + 1
        /\ \A i \in 1 .. Len(inbound) :
             i <= 2 * n => inbound[i].f = "h_rd" /\ inbound[i].ch \in 0 .. 255
        /\ \A k \in 1 .. n :
             2 * k <= Len(inbound) =>
                 inbound[2 * k - 1].ch * 256 + inbound[2 * k].ch = text[k]
        /\ Len(inbound) = 2 * n + 1 => inbound[2 * n + 1].f = "h_re"
        /\ codecPc \notin {"encode", "rd"} => Len(inbound) = 2 * n + 1

\* send_event has returned for an event with a unit whose high byte is not 0.
C14_Witness ==
    /\ codecPc = "echo"
    /\ \E i \in DOMAIN payload : payload[i] = 20013
    /\ Len(inbound) = 2 * Len(json_to_string(cmd, payload)) + 1

\* A decoder of the chunked transfer coding: chunk after chunk up to the
\* chunk of size 0 and the empty trailer after it; it gives the body and the
\* bytes left after the message.
HexVal(x) ==
    IF x \in 48 .. 57 THEN x - 48
    ELSE IF x \in 65 .. 70 THEN x - 55
    ELSE IF x \in 97 .. 102 THEN x - 87
    ELSE -1
IsCRLF(b, i) == i + 1 <= Len(b) /\ b[i] = 13 /\ b[i + 1] = 10

RECURSIVE ReadSize(_, _, _)
ReadSize(b, i, v) ==
    IF i <= Len(b) /\ HexVal(b[i]) >= 0 THEN ReadSize(b, i + 1, 16 * v + HexVal(b[i]))
    ELSE <<v, i>>

RECURSIVE Dechunk(_, _, _)
Dechunk(b, i, acc) ==
    IF i > Len(b) \/ HexVal(b[i]) < 0 THEN <<"bad">>
    ELSE LET size == ReadSize(b, i, 0)[1]
             j == ReadSize(b, i, 0)[2]
         IN  IF ~IsCRLF(b, j) THEN <<"bad">>
             ELSE IF size = 0
                  THEN IF IsCRLF(b, j + 2) THEN <<"ok", acc, SubSeq(b, j + 4, Len(b))>>
                       ELSE <<"bad">>
             ELSE IF ~IsCRLF(b, j + 2 + size) THEN <<"bad">>
             ELSE Dechunk(b, j + 4 + size, acc \o SubSeq(b, j + 2, j + 1 + size))

\* C15: a chunked decoder reading what Response::end wrote recovers exactly
\* the body, from one chunk and the terminating chunk, and no byte is left.
C15_ChunkedFraming ==
    chunkPc = "flushed" => Dechunk(sock, 1, <<>>) = <<"ok", endBody, <<>>>>

WriteHeadMsg == Envelope("http.writeHead", JArr(<<JInt(0), JInt(200), JObj(Headers)>>))
WriteHeadTarget == RESPONSE_MAP[0]

C17_BindFailureRecoverable ==
    [][\A t \in Tasks :
         (/\ Handles(t)
          /\ Kind(task[t].val) = "listen"
          /\ task'[t].pc # "accepting")
         => /\ task'[t].pc = "panicked"
            /\ \A u \in Tasks \ {t} : task'[u] = task[u]
            /\ AcceptingServer => AcceptingServer'
            /\ <<mainPc, ports, RESPONSE_MAP, conn, sends>>' =
                   <<mainPc, ports, RESPONSE_MAP, conn, sends>>]_vars

\* Two http.listen have failed, one before and one after the one that is in
\* its accept loop (no http.end has obtained a connection, so no write has
\* failed); a connection is registered and another has just been accepted.
C17_Witness ==
    /\ obtained = {}
    /\ \E s, t, u \in Tasks :
         /\ s < t /\ t < u
         /\ task[s].pc = "panicked" /\ task[t].pc = "accepting" /\ task[u].pc = "panicked"
    /\ \E c, d \in Conns : Registered(conn[c].id) /\ conn[d].pc = "read"

\* An http.end whose payload is not [number, number, object, string or
\* object].
MalformedEnd(v) ==
    /\ IsStr(Index(v, 0))
    /\ Index(v, 0)[2] = "http.end"
    /\ ~(Kind(v) = "end" /\ (IsStr(EndBody(v)) \/ IsObj(EndBody(v))))

\* C18: handling a malformed http.end leaves the registry as it is and
\* starts no write: no task holds a connection for it afterwards.
C18_MalformedEndNoop ==
    [][\A t \in Tasks :
         (Handles(t) /\ MalformedEnd(task[t].val))
         => /\ RESPONSE_MAP' = RESPONSE_MAP
            /\ ~Writing(t)']_vars

\* C19: an entry of the registry stays, under its id and with its
\* connection, over every step but the handling of an http.end whose id
\* selects it; and a registered connection is open.
C19_RegisteredUntilEnd ==
    [][/\ \A i \in DOMAIN RESPONSE_MAP :
            \/ i \in DOMAIN RESPONSE_MAP' /\ RESPONSE_MAP'[i] = RESPONSE_MAP[i]
            \/ \E t \in Tasks :
                  /\ Handles(t)
                  /\ Kind(task[t].val) = "end"
                  /\ AsUsize(EndId(task[t].val)[2]) = i
       /\ \A i \in DOMAIN RESPONSE_MAP' : conn'[RESPONSE_MAP'[i]].open]_vars

\* The connection of id 0 is still registered and open after a second
\* request was registered, an http.listen failed and another command was
\* handled without effect.
C19_Witness ==
    /\ Registered(0) /\ Registered(1)
    /\ conn[RESPONSE_MAP[0]].open
    /\ \E t, u \in Tasks : t # u /\ task[t].pc = "panicked" /\ task[u].pc = "done"

\* send_event has made its first h_rd call for the event of c and has not
\* yet called h_re.
InFlight(c) == conn[c].pc = "h_rd" /\ rdCalls[c] > 0

\* C20: the calls of two events never interleave: while one event is between
\* its first h_rd and its h_re no other event has an h_rd call made.
C20_AtomicDelivery ==
    \A c, d \in Conns : (c # d /\ InFlight(c)) => ~InFlight(d)

=============================================================================
